---------------------------- MODULE Spec2Model ----------------------------
(***************************************************************************)
(* Actor-critic training of the NPC speed controller (actor-critic2.py).   *)
(*                                                                         *)
(* The model follows the script's episode loop and Scenario.main one       *)
(* statement group at a time, so that the simulator's callbacks            *)
(* (on_collision) fall where sim.run() is called.                          *)
(*                                                                         *)
(* Numbers.  Floats are fixed-point integers in hundredths: a speed of     *)
(* 3.0 m/s is 300, a reward of 100 is 10000, y = -3.15 is -315.  The       *)
(* time-to-collision, which the code rounds to three decimals, is kept in  *)
(* thousandths.  A float that may be inf or NaN is a record (Num, Inf,     *)
(* NaN).  Python's ZeroDivisionError and the RuntimeError of autograd's    *)
(* anomaly mode end the process (pc = "crashed", fault names the           *)
(* exception).                                                             *)
(*                                                                         *)
(* Left out: the reward totals ep_reward and running_reward (lines 387,    *)
(* 395) and their two columns of the log, the weight files, the bridge's   *)
(* busy wait, the x coordinate and the angle of a waypoint.                *)
(***************************************************************************)
EXTENDS Integers, Sequences, FiniteSets, TLC

\* ---------------------------------------------------------------- bounds
\* num_episodes is 70 (line 429); the model runs this many episodes.
MaxEpisodes == 2
\* num_waypoints and the length of UNIFORM_WAYPOINTS are 15 (lines 136, 153).
NumWaypoints == 3
\* the first 5 waypoints are "early" (lines 125, 368); scaled with NumWaypoints.
EarlySteps == 1

\* ------------------------------------------------------ program constants
\* reward = 100 on collision (line 265), in hundredths
TerminalReward == 10000
\* --gamma default 0.99 (line 36), in hundredths
Gamma == 99
\* 1 / eps, eps = np.finfo(np.float32).eps = 2^-23 (line 112)
EpsInv == 8388608
\* self.npc_speed = 6.5 (line 151)
InitialNpcSpeed == 650
\* y_position = -3.15 (line 122)
YStart == -315
\* y_position += 0.28 / 0.08 (lines 126, 128)
YEarlyStep == 28
YLateStep == 8
\* waypoint.position.y -= 0.56 / 0.16 (lines 369, 371)
YEarlyDrop == 56
YLateDrop == 16
\* sample_uniform_waypoints(-45, 25, 15) (line 136)
ZStart == -4500
ZEnd == 2500
\* NPC spawn relative to the EGO spawn: x - 8, z + 72 (lines 176, 178)
NpcOffsetX == -800
NpcOffsetZ == 7200

\* floats that may be non-finite
Num(v) == [k |-> "num", v |-> v]
NaN == [k |-> "nan", v |-> 0]
Inf == [k |-> "inf", v |-> 0]
IsFinite(f) == f.k = "num"

\* ------------------------------------------------- inputs (small domains)
\* action_probs[1] of the policy's softmax output, in hundredths;
\* action_probs[0] is the complement.
Probs == {30}
\* self.ego.state.speed as the simulator reports it
EgoSpeeds == {0, 300}
\* how far the NPC advances along -z in one sim.run()
NpcMoves == {0, 100}
\* the multipliers behind the two np.random.uniform draws of the model
Seeds == {1700, 2900}

\* the episode has not written its line yet
NoLine == [i_episode |-> 0, speed |-> 0, collided |-> FALSE]

VARIABLES
    pc,                 \* where the process is
    fault,              \* the exception that ended it, or "none"
    episode_counter,    \* script loop (line 430)
    UNIFORM_WAYPOINTS,  \* the module-level list: a sequence of references
    heap,               \* the DriveWaypoint objects: reference -> fields
    sampled,            \* what sample_uniform_waypoints returned (history)
    collided, npc_speed,                 \* Scenario fields
    npc_z, ego_speed, following,         \* the simulator
    state, iteration, done, reward, waypoint, episode_avg_speed,
    saved_actions, rewards,              \* model's buffers
    optimizer_steps,                     \* optimizer.step() calls so far
    returns,            \* finish_episode's normalized returns, last call
    logline,            \* the line this episode appended to ac-log.txt
    commanded           \* speeds commanded in this episode (history)

vars == << pc, fault, episode_counter, UNIFORM_WAYPOINTS, heap, sampled,
           collided, npc_speed, npc_z, ego_speed, following,
           state, iteration, done, reward, waypoint, episode_avg_speed,
           saved_actions, rewards, optimizer_steps, returns, logline,
           commanded >>

\* ------------------------------------------------------ arithmetic helpers
RECURSIVE SumSeq(_)
SumSeq(s) == IF s = << >> THEN 0 ELSE s[1] + SumSeq(Tail(s))

Abs(x) == IF x < 0 THEN -x ELSE x

\* np.round: round half to even, for a >= 0 and b > 0
RoundDivPos(a, b) ==
    LET q == a \div b
        r == a % b
    IN  IF 2 * r < b THEN q
        ELSE IF 2 * r > b THEN q + 1
        ELSE IF q % 2 = 0 THEN q ELSE q + 1

RoundDiv(a, b) == IF a < 0 THEN -RoundDivPos(-a, b) ELSE RoundDivPos(a, b)

RECURSIVE SqrtSearch(_, _, _)
SqrtSearch(n, lo, hi) ==
    IF lo >= hi THEN lo
    ELSE LET mid == (lo + hi + 1) \div 2
         IN  IF mid * mid <= n THEN SqrtSearch(n, mid, hi)
             ELSE SqrtSearch(n, lo, mid - 1)

\* math.sqrt / torch's sqrt, rounded down
Sqrt(n) == SqrtSearch(n, 0, 46340)

\* --------------------------------------------------- sample_uniform_waypoints
RECURSIVE SortAsc(_)
SortAsc(s) ==
    IF s = << >> THEN << >>
    ELSE LET i == CHOOSE k \in DOMAIN s : \A j \in DOMAIN s : s[k] <= s[j]
         IN  << s[i] >> \o SortAsc(SubSeq(s, 1, i - 1) \o SubSeq(s, i + 1, Len(s)))

Flip(s) == [i \in 1..Len(s) |-> s[Len(s) + 1 - i]]

\* np.random.uniform(low, high, n): n draws in [low, high]
Uniform(low, high, n, seed) == [i \in 1..n |-> low + ((i * seed) % (high - low + 1))]

\* y_position after the loop body of index i (0-based)
YPosition(i) ==
    LET early == IF i + 1 < EarlySteps THEN i + 1 ELSE EarlySteps
    IN  YStart + YEarlyStep * early + YLateStep * (i + 1 - early)

\* the waypoint objects, by reference: ref r is the r-th one created
sample_uniform_waypoints(start, end, n, seed) ==
    LET z_locations == Flip(SortAsc(Uniform(start, end, n, seed)))
    IN  [r \in 1..n |-> [y |-> YPosition(r - 1), z |-> z_locations[r], speed |-> 0]]

\* ------------------------------------------------------------ the simulator
\* Scenario.on_collision: the callback sets the flag (line 224)
on_collision(flag) == TRUE

\* sim.run(): the NPC advances, the EGO's speed changes, and the simulator
\* may call on_collision
SimRun(collides, move, es) ==
    /\ npc_z' = npc_z - move
    /\ ego_speed' = es
    /\ collided' = IF collides THEN on_collision(collided) ELSE collided

\* ------------------------------------------------------- Scenario.update_state2
\* self.npc_speed from the sampled action and its probability (lines 242-245)
SpeedOfAction(action, p1) ==
    IF action = 1 THEN p1 * 10 ELSE -((100 - p1) * 10)

\* --------------------------------------------------------- waypoint handling
\* lines 364-373: the waypoint object after the speed is applied
AdjustedWaypoint(w, speed, it) ==
    IF speed < 0
    THEN [y |-> w.y - (IF it < EarlySteps THEN YEarlyDrop ELSE YLateDrop),
          z |-> w.z - speed,
          speed |-> -speed]
    ELSE [w EXCEPT !.speed = speed]

\* the slice assignment without the append before it
ShiftedWithoutAppend(list, it) ==
    SubSeq(list, 1, it) \o SubSeq(list, it + 2, Len(list))

\* lines 381-382: append(list[-1]); list[it:] = list[it+1:]  (it is 0-based)
ShiftedWaypoints(list, it) ==
    LET appended == Append(list, list[Len(list)])
    IN  SubSeq(appended, 1, it) \o SubSeq(appended, it + 2, Len(appended))

\* ----------------------------------------------------------- Scenario.step
\* calculate_ttc (lines 272-281): raised is Python's ZeroDivisionError of
\* dist / relative_speed; ttc is in thousandths
calculate_ttc(nz, ns, es) ==
    LET dist == Sqrt(NpcOffsetX * NpcOffsetX + nz * nz)
        relative_speed == ns - es
    IN  IF relative_speed = 0
        THEN [raised |-> TRUE, ttc |-> 0]
        ELSE [raised |-> FALSE, ttc |-> RoundDivPos(1000 * dist, Abs(relative_speed))]

\* 1 / ttc on a numpy float: inf when ttc is 0
Reciprocal(ttc) == IF ttc = 0 THEN Inf ELSE Num(100000 \div ttc)

\* a step that pays the terminal reward but does not end the episode
step_without_done(flag, nz, ns, es) ==
    IF flag
    THEN [raised |-> FALSE, reward |-> Num(TerminalReward), done |-> FALSE]
    ELSE LET t == calculate_ttc(nz, ns, es)
         IN  IF t.raised
             THEN [raised |-> TRUE, reward |-> NaN, done |-> FALSE]
             ELSE [raised |-> FALSE, reward |-> Reciprocal(t.ttc), done |-> FALSE]

\* lines 264-270
step(flag, nz, ns, es) ==
    IF flag
    THEN [raised |-> FALSE, reward |-> Num(TerminalReward), done |-> TRUE]
    ELSE LET t == calculate_ttc(nz, ns, es)
         IN  IF t.raised
             THEN [raised |-> TRUE, reward |-> NaN, done |-> FALSE]
             ELSE [raised |-> FALSE, reward |-> Reciprocal(t.ttc), done |-> FALSE]

Init ==
    /\ pc = "start"
    /\ fault = "none"
    /\ episode_counter = 1
    /\ \E seed \in Seeds :
          heap = sample_uniform_waypoints(ZStart, ZEnd, NumWaypoints, seed)
    /\ sampled = heap
    /\ UNIFORM_WAYPOINTS = [i \in 1..NumWaypoints |-> i]
    /\ collided = FALSE
    /\ npc_speed = InitialNpcSpeed
    /\ npc_z = NpcOffsetZ
    /\ ego_speed = 0
    /\ following = 0
    /\ state = 0
    /\ iteration = 1
    /\ done = FALSE
    /\ reward = Num(0)
    /\ waypoint = 0
    /\ episode_avg_speed = 0
    /\ saved_actions = << >>
    /\ rewards = << >>
    /\ optimizer_steps = 0
    /\ returns = << >>
    /\ logline = NoLine
    /\ commanded = << >>

\* ------------------------------------------------- Scenario.finish_episode
\* a + b on floats that may be inf (no operand is negative or NaN here)
FAdd(a, b) == IF IsFinite(a) /\ IsFinite(b) THEN Num(a.v + b.v) ELSE Inf

\* lines 288-296: R = r + gamma * R over the rewards, last to first
RECURSIVE DiscountedReturns(_)
DiscountedReturns(rs) ==
    IF rs = << >> THEN << >>
    ELSE LET rest == DiscountedReturns(Tail(rs))
             R == IF rest = << >> THEN Num(0) ELSE rest[1]
             discounted == IF IsFinite(R) THEN Num((Gamma * R.v) \div 100) ELSE Inf
         IN  << FAdd(rs[1], discounted) >> \o rest

\* Tensor.mean() of finite values
Mean(xs) == SumSeq(xs) \div Len(xs)

\* Tensor.std(): the unbiased estimator divides by n - 1, so that one
\* element gives 0 / 0 = NaN
Std(xs) ==
    LET n == Len(xs)
        m == Mean(xs)
        squares == [i \in 1..n |-> (xs[i] - m) * (xs[i] - m)]
    IN  IF n - 1 = 0 THEN NaN ELSE Num(Sqrt(SumSeq(squares) \div (n - 1)))

\* line 299: (returns - returns.mean()) / (returns.std() + eps).  With an
\* inf among the returns the mean is inf and every quotient is NaN.  A std
\* that is not 0 hides eps, which is below the fixed-point resolution.
NormalizedReturns(rets) ==
    IF \E i \in DOMAIN rets : ~IsFinite(rets[i])
    THEN [i \in DOMAIN rets |-> NaN]
    ELSE LET xs == [i \in DOMAIN rets |-> rets[i].v]
             sd == Std(xs)
         IN  [i \in DOMAIN rets |->
                IF ~IsFinite(sd) THEN NaN
                ELSE IF sd.v = 0 THEN Num((xs[i] - Mean(xs)) * EpsInv)
                ELSE Num(((xs[i] - Mean(xs)) * 100) \div sd.v)]

\* lines 301-317 under torch.autograd.set_detect_anomaly(True) (line 113):
\* torch.stack of no losses raises, and so does a backward pass that
\* yields NaN, which an advantage of NaN does
BackwardRaises(actions, norm) ==
    \/ Len(actions) = 0
    \/ Len(norm) = 0
    \/ \E i \in DOMAIN norm : i <= Len(actions) /\ ~IsFinite(norm[i])

\* a buffer that is not cleared
KeptBuffer(buffer) == buffer

\* del buffer[:] (lines 321-322)
ResetBuffer(buffer) == << >>

\* =========================================================== the actions
Crash(exception) ==
    /\ pc' = "crashed"
    /\ fault' = exception

\* script loop and Scenario(sim), then main up to set_environment(); the
\* locals of the call of main that returned are gone
\* (lines 431-433, 141-153, 335-338, 155-209).  self.uniform_waypoints is
\* the list UNIFORM_WAYPOINTS itself, not a copy.
NewScenario ==
    /\ pc = "start"
    /\ episode_counter <= MaxEpisodes
    /\ pc' = "connect"
    /\ collided' = FALSE
    /\ npc_speed' = InitialNpcSpeed
    /\ npc_z' = NpcOffsetZ
    /\ ego_speed' = 0
    /\ following' = 0
    /\ commanded' = << >>
    /\ state' = 0
    /\ iteration' = 1
    /\ done' = FALSE
    /\ reward' = Num(0)
    /\ waypoint' = 0
    /\ episode_avg_speed' = 0
    /\ returns' = << >>
    /\ logline' = NoLine
    /\ UNCHANGED << fault, episode_counter, UNIFORM_WAYPOINTS, heap, sampled,
                    saved_actions, rewards, optimizer_steps >>

\* the script's while loop ends (line 431)
Exit ==
    /\ pc = "start"
    /\ episode_counter > MaxEpisodes
    /\ pc' = "exit"
    /\ UNCHANGED << fault, episode_counter, UNIFORM_WAYPOINTS, heap, sampled,
                    collided, npc_speed, npc_z, ego_speed, following, state,
                    iteration, done, reward, waypoint, episode_avg_speed,
                    saved_actions, rewards, optimizer_steps, returns, logline,
                    commanded >>

\* connect2bridge with its sim.run(3), then main's locals (lines 339-353)
Connect2Bridge ==
    /\ pc = "connect"
    /\ \E collides \in BOOLEAN, move \in NpcMoves, es \in EgoSpeeds :
          /\ SimRun(collides, move, es)
          /\ state' = npc_z - move
    /\ done' = FALSE
    /\ iteration' = 1
    /\ episode_avg_speed' = 0
    /\ pc' = "loop"
    /\ UNCHANGED << fault, episode_counter, UNIFORM_WAYPOINTS, heap, sampled,
                    npc_speed, following, reward, waypoint, saved_actions,
                    rewards, optimizer_steps, returns, logline, commanded >>

\* the loop test and update_state2, then the read of the NPC's position
\* (lines 355-359, 233-251)
UpdateState2 ==
    /\ pc = "loop"
    /\ iteration < NumWaypoints
    /\ \E p1 \in Probs, action \in {0, 1} :
          /\ npc_speed' = SpeedOfAction(action, p1)
          /\ saved_actions' = Append(saved_actions,
                [obs |-> state, action |-> action,
                 prob |-> IF action = 1 THEN p1 ELSE 100 - p1])
    /\ state' = npc_z
    /\ pc' = "waypoint"
    /\ UNCHANGED << fault, episode_counter, UNIFORM_WAYPOINTS, heap, sampled,
                    collided, npc_z, ego_speed, following, iteration, done,
                    reward, waypoint, episode_avg_speed, rewards,
                    optimizer_steps, returns, logline, commanded >>

\* the loop test fails: waypoints exhausted (line 355)
LoopExit ==
    /\ pc = "loop"
    /\ ~(iteration < NumWaypoints)
    /\ pc' = "finish"
    /\ UNCHANGED << fault, episode_counter, UNIFORM_WAYPOINTS, heap, sampled,
                    collided, npc_speed, npc_z, ego_speed, following, state,
                    iteration, done, reward, waypoint, episode_avg_speed,
                    saved_actions, rewards, optimizer_steps, returns, logline,
                    commanded >>

\* lines 361-375
AdjustWaypoint ==
    /\ pc = "waypoint"
    /\ LET ref == UNIFORM_WAYPOINTS[iteration + 1]
       IN  /\ waypoint' = ref
           /\ heap' = [heap EXCEPT ![ref] = AdjustedWaypoint(@, npc_speed, iteration)]
    /\ episode_avg_speed' = episode_avg_speed + npc_speed
    /\ commanded' = Append(commanded, npc_speed)
    /\ pc' = "step"
    /\ UNCHANGED << fault, episode_counter, UNIFORM_WAYPOINTS, sampled,
                    collided, npc_speed, npc_z, ego_speed, following, state,
                    iteration, done, reward, saved_actions, rewards,
                    optimizer_steps, returns, logline >>

\* reward, done = self.step(waypoint) (lines 377, 253-281)
Step ==
    /\ pc = "step"
    /\ following' = waypoint
    /\ LET result == step(collided, npc_z, npc_speed, ego_speed)
       IN  IF result.raised
           THEN /\ Crash("ZeroDivisionError")
                /\ UNCHANGED << reward, done >>
           ELSE /\ reward' = result.reward
                /\ done' = result.done
                /\ pc' = "shift"
                /\ UNCHANGED fault
    /\ UNCHANGED << episode_counter, UNIFORM_WAYPOINTS, heap, sampled,
                    collided, npc_speed, npc_z, ego_speed, state, iteration,
                    waypoint, episode_avg_speed, saved_actions, rewards,
                    optimizer_steps, returns, logline, commanded >>

\* lines 379-382
ShiftWaypoints ==
    /\ pc = "shift"
    /\ UNIFORM_WAYPOINTS' = IF npc_speed < 0
                            THEN ShiftedWaypoints(UNIFORM_WAYPOINTS, iteration)
                            ELSE UNIFORM_WAYPOINTS
    /\ pc' = "run"
    /\ UNCHANGED << fault, episode_counter, heap, sampled, collided,
                    npc_speed, npc_z, ego_speed, following, state, iteration,
                    done, reward, waypoint, episode_avg_speed, saved_actions,
                    rewards, optimizer_steps, returns, logline, commanded >>

\* self.run_simulator(waypoint): sim.run(1) (lines 384, 324-328)
RunSimulator ==
    /\ pc = "run"
    /\ \E collides \in BOOLEAN, move \in NpcMoves, es \in EgoSpeeds :
          /\ SimRun(collides, move, es)
    /\ pc' = "record"
    /\ UNCHANGED << fault, episode_counter, UNIFORM_WAYPOINTS, heap, sampled,
                    npc_speed, following, state, iteration, done, reward,
                    waypoint, episode_avg_speed, saved_actions, rewards,
                    optimizer_steps, returns, logline, commanded >>

\* lines 386-392
Record ==
    /\ pc = "record"
    /\ rewards' = Append(rewards, reward)
    /\ IF done
       THEN /\ pc' = "finish"
            /\ UNCHANGED iteration
       ELSE /\ iteration' = iteration + 1
            /\ pc' = "loop"
    /\ UNCHANGED << fault, episode_counter, UNIFORM_WAYPOINTS, heap, sampled,
                    collided, npc_speed, npc_z, ego_speed, following, state,
                    done, reward, waypoint, episode_avg_speed, saved_actions,
                    optimizer_steps, returns, logline, commanded >>

\* self.finish_episode() and the average speed (lines 398-400, 283-322);
\* episode_avg_speed becomes the average, in thousandths
FinishEpisode ==
    /\ pc = "finish"
    /\ LET norm == NormalizedReturns(DiscountedReturns(rewards))
       IN  /\ returns' = norm
           /\ IF BackwardRaises(saved_actions, norm)
              THEN /\ Crash("RuntimeError")
                   /\ UNCHANGED << optimizer_steps, saved_actions, rewards,
                                   episode_avg_speed >>
              ELSE /\ optimizer_steps' = optimizer_steps + 1
                   /\ rewards' = ResetBuffer(rewards)
                   /\ saved_actions' = ResetBuffer(saved_actions)
                   /\ episode_avg_speed' = RoundDiv(10 * episode_avg_speed, iteration)
                   /\ pc' = "log"
                   /\ UNCHANGED fault
    /\ UNCHANGED << episode_counter, UNIFORM_WAYPOINTS, heap, sampled,
                    collided, npc_speed, npc_z, ego_speed, following, state,
                    iteration, done, reward, waypoint, logline, commanded >>

\* the log line (log_interval is 1) and the script's next episode
\* (lines 403-410, 434-435)
LogEpisode ==
    /\ pc = "log"
    /\ logline' = [i_episode |-> episode_counter,
                   speed |-> episode_avg_speed, collided |-> collided]
    /\ episode_counter' = episode_counter + 1
    /\ pc' = "start"
    /\ UNCHANGED << fault, UNIFORM_WAYPOINTS, heap, sampled, collided,
                    npc_speed, npc_z, ego_speed, following, state, iteration,
                    done, reward, waypoint, episode_avg_speed, saved_actions,
                    rewards, optimizer_steps, returns, commanded >>

Next ==
    \/ NewScenario
    \/ Exit
    \/ Connect2Bridge
    \/ UpdateState2
    \/ LoopExit
    \/ AdjustWaypoint
    \/ Step
    \/ ShiftWaypoints
    \/ RunSimulator
    \/ Record
    \/ FinishEpisode
    \/ LogEpisode

Spec == Init /\ [][Next]_vars


\* ============================================================ the claims
Last(s) == s[Len(s)]
Terminal == Num(TerminalReward)
OriginalList == [i \in 1..NumWaypoints |-> i]

\* C1: when finish_episode is entered, saved_actions and rewards have the
\* same length, the number of loop iterations of this episode: iteration
\* after a collision break, all NumWaypoints - 1 after exhaustion; in every
\* episode of the run.
C1_BuffersMatchSteps ==
    pc = "finish" =>
        /\ Len(saved_actions) = Len(rewards)
        /\ Len(rewards) = Len(commanded)
        /\ Len(commanded) = IF done THEN iteration ELSE NumWaypoints - 1

\* a later episode that broke on a collision after more than one step
C1_Witness ==
    /\ pc = "finish"
    /\ episode_counter > 1
    /\ done
    /\ Len(rewards) > 1

\* C2: once finish_episode has been called for an episode (it returned,
\* or it raised), the optimizer has stepped once per episode so far and
\* both buffers are empty; and they are empty when an episode begins.
C2_OneUpdatePerEpisode ==
    /\ (pc = "log" \/ (pc = "crashed" /\ fault = "RuntimeError")) =>
          /\ optimizer_steps = episode_counter
          /\ saved_actions = << >>
          /\ rewards = << >>
    /\ pc \in {"start", "connect"} => saved_actions = << >> /\ rewards = << >>

\* C3: the observation the policy was given at step k + 1 (k >= 1) is the
\* NPC position after the tick of step k, which is still the NPC's
\* position when update_state2 returns.
C3_ObservationIsFresh ==
    (pc = "waypoint" /\ iteration >= 2) => Last(saved_actions).obs = npc_z

\* C4: at the beginning of every episode's step loop the waypoint list
\* and the waypoints' fields are those sample_uniform_waypoints produced.
C4_FreshWaypoints ==
    (pc = "loop" /\ iteration = 1) =>
        /\ UNIFORM_WAYPOINTS = OriginalList
        /\ heap = sampled

\* C5 as stated: a step with negative speed leaves the list one element
\* longer, its last element the previous last element.
C5_ListGrows ==
    [][(pc = "shift" /\ npc_speed < 0) =>
          /\ Len(UNIFORM_WAYPOINTS') = Len(UNIFORM_WAYPOINTS) + 1
          /\ Last(UNIFORM_WAYPOINTS') = Last(UNIFORM_WAYPOINTS)]_vars

\* C5 amended: a step with negative speed leaves the list as long as it
\* was: the element at the current index is dropped, the elements after
\* it move one place to the left, and the last element is once more the
\* previous last element.
C5_ListKeepsLength ==
    [][(pc = "shift" /\ npc_speed < 0) =>
          /\ Len(UNIFORM_WAYPOINTS') = Len(UNIFORM_WAYPOINTS)
          /\ Last(UNIFORM_WAYPOINTS') = Last(UNIFORM_WAYPOINTS)
          /\ \A i \in 1..Len(UNIFORM_WAYPOINTS) :
                UNIFORM_WAYPOINTS'[i] =
                    IF i <= iteration \/ i = Len(UNIFORM_WAYPOINTS)
                    THEN UNIFORM_WAYPOINTS[i]
                    ELSE UNIFORM_WAYPOINTS[i + 1]]_vars

\* a backward step has shifted the list: the last waypoint is there twice
C5_Witness ==
    /\ pc = "run"
    /\ npc_speed < 0
    /\ Len(UNIFORM_WAYPOINTS) = NumWaypoints
    /\ UNIFORM_WAYPOINTS[NumWaypoints - 1] = Last(UNIFORM_WAYPOINTS)

\* C6: a step without collision never raises and returns a finite reward
\* with done = false, also when the relative speed is zero.
C6_StepNeverFaults ==
    /\ fault # "ZeroDivisionError"
    /\ (pc = "shift" /\ ~collided) => IsFinite(reward) /\ ~done

\* C7: whatever episode record reaches finish_episode, the normalized
\* returns are defined and the update goes through.
C7_UpdateWellDefined ==
    /\ \A i \in DOMAIN returns : IsFinite(returns[i])
    /\ fault # "RuntimeError"

\* C8: a step taken with the collision flag set returns reward 100 and
\* done = true without evaluating the time-to-collision (so it cannot
\* raise), and the loop stops once that reward is recorded.
C8_CollisionIsTerminal ==
    /\ (pc = "shift" /\ collided) => reward = Terminal /\ done
    /\ (pc = "crashed" /\ fault = "ZeroDivisionError") => ~collided
    /\ (pc \in {"run", "record"} /\ done) => reward = Terminal
    /\ (pc = "finish" /\ done) =>
          Last(rewards) = Terminal /\ Len(rewards) = iteration
    /\ pc \in {"loop", "waypoint", "step"} => ~done

\* step has returned with the flag set and a relative speed of zero
C8_Witness ==
    /\ pc = "shift"
    /\ collided
    /\ npc_speed = ego_speed
    /\ reward = Terminal
    /\ done

\* C9: the reward of a step is computed after its tick, so that with the
\* collision flag set after the tick the reward about to be recorded is
\* 100 and ends the loop; an episode that ends collided has 100 as its
\* last reward.
C9_RewardAfterTick ==
    /\ (pc = "record" /\ collided) => reward = Terminal /\ done
    /\ (pc = "finish" /\ collided) => Last(rewards) = Terminal

\* C10: the average speed on the episode's log line is the sum of the
\* speeds commanded in the episode over the number of steps executed.
C10_AverageSpeed ==
    (pc = "start" /\ logline.i_episode > 0) =>
        logline.speed = RoundDiv(10 * SumSeq(commanded), Len(commanded))

=============================================================================
